---- MODULE Spec2Model ----
(***************************************************************************)
(* Control / itemset compilation of pyxform question nodes                 *)
(* (src/pyxform/question.py).                                              *)
(*                                                                         *)
(* Strings are sequences of lexical tokens.  The tokens used in paths and  *)
(* filter expressions ("/", ".", " ", "current()", "${", "}", one-letter   *)
(* names, ...) are chosen so that no token occurs inside another or across *)
(* a token boundary: a substring match on characters is then exactly a     *)
(* subsequence match on tokens, and str.replace / str.split / str.strip /  *)
(* os.path.splitext are modelled token by token as Python computes them.   *)
(***************************************************************************)
EXTENDS Naturals, Sequences, FiniteSets, TLC

VARIABLES node, survey, result, before, op

vars == <<node, survey, result, before, op>>

\* ------------------------------------------------------------ bounds
MaxTriggers == 2
MaxGeo == 1
MaxFilterLen == 5

\* ------------------------------------------------------------ mappings
EmptyMap == [k \in {} |-> <<>>]

Put(m, k, v) == [y \in (DOMAIN m) \cup {k} |-> IF y = k THEN v ELSE m[y]]

\* dict.update(other)
Update(m, other) ==
    [y \in (DOMAIN m) \cup (DOMAIN other) |-> IF y \in DOMAIN other THEN other[y] ELSE m[y]]

\* dict.get(key, default)
Get(m, k, default) == IF k \in DOMAIN m THEN m[k] ELSE default

\* ------------------------------------------------------------ strings
\* s.startswith(p)
StartsWith(s, p) == Len(s) >= Len(p) /\ SubSeq(s, 1, Len(p)) = p

\* p in s
Contains(s, p) == \E i \in 1..(Len(s) + 1) : StartsWith(SubSeq(s, i, Len(s)), p)

\* Mutant of Replace: only the first occurrence is replaced (count = 1).
ReplaceFirstOnly(s, old, new) ==
    IF Contains(s, old)
    THEN LET i == CHOOSE k \in 1..(Len(s) + 1) :
                      /\ StartsWith(SubSeq(s, k, Len(s)), old)
                      /\ \A j \in 1..(k - 1) : ~StartsWith(SubSeq(s, j, Len(s)), old)
         IN  SubSeq(s, 1, i - 1) \o new \o SubSeq(s, i + Len(old), Len(s))
    ELSE s

RECURSIVE Replace(_, _, _)
\* s.replace(old, new): leftmost non-overlapping occurrences, one pass; an
\* empty old inserts new before every character and at the end.
Replace(s, old, new) ==
    IF Len(old) = 0
    THEN IF s = <<>> THEN new ELSE new \o <<Head(s)>> \o Replace(Tail(s), old, new)
    ELSE IF Len(s) < Len(old) THEN s
    ELSE IF StartsWith(s, old)
         THEN new \o Replace(SubSeq(s, Len(old) + 1, Len(s)), old, new)
         ELSE <<Head(s)>> \o Replace(Tail(s), old, new)

RECURSIVE LStrip(_)
LStrip(s) == IF s # <<>> /\ Head(s) = " " THEN LStrip(Tail(s)) ELSE s

RECURSIVE RStrip(_)
RStrip(s) == IF s # <<>> /\ s[Len(s)] = " " THEN RStrip(SubSeq(s, 1, Len(s) - 1)) ELSE s

\* s.strip()
Strip(s) == RStrip(LStrip(s))

RECURSIVE SplitAcc(_, _, _)
SplitAcc(s, sep, cur) ==
    IF s = <<>> THEN <<cur>>
    ELSE IF Head(s) = sep THEN <<cur>> \o SplitAcc(Tail(s), sep, <<>>)
    ELSE SplitAcc(Tail(s), sep, Append(cur, Head(s)))

\* s.split(sep): the list of segments, empty segments kept
Split(s, sep) == SplitAcc(s, sep, <<>>)

RECURSIVE Join(_, _)
\* sep.join(parts)
Join(parts, sep) ==
    IF parts = <<>> THEN <<>>
    ELSE IF Len(parts) = 1 THEN parts[1]
    ELSE parts[1] \o <<sep>> \o Join(Tail(parts), sep)

\* index of the last occurrence of token t in s, 0 when there is none
LastIndex(s, t) ==
    IF \E i \in 1..Len(s) : s[i] = t
    THEN CHOOSE i \in 1..Len(s) : s[i] = t /\ \A j \in (i + 1)..Len(s) : s[j] # t
    ELSE 0

\* os.path.splitext(p): split at the last "." after the last "/", unless that
\* component has only dots before it; returns <<root, ext>>.
Splitext(p) ==
    LET sepIndex == LastIndex(p, "/")
        dotIndex == LastIndex(p, ".")
    IN  IF dotIndex > sepIndex
           /\ \E i \in (sepIndex + 1)..(dotIndex - 1) : p[i] # "."
        THEN <<SubSeq(p, 1, dotIndex - 1), SubSeq(p, dotIndex, Len(p))>>
        ELSE <<p, <<>>>>

\* PYXFORM_REFERENCE_REGEX.search(s): "${" followed, later, by "}"
ReferenceSearch(s) ==
    \E i \in 1..Len(s) : s[i] = "${" /\ \E j \in (i + 1)..Len(s) : s[j] = "}"

\* ------------------------------------------------------------ constants
EXTERNAL_CHOICES_ITEMSET_REF_LABEL == <<"label">>
EXTERNAL_CHOICES_ITEMSET_REF_LABEL_GEOJSON == <<"geojson-label">>
EXTERNAL_CHOICES_ITEMSET_REF_VALUE == <<"value">>
EXTERNAL_CHOICES_ITEMSET_REF_VALUE_GEOJSON == <<"geojson-value">>
EXTERNAL_INSTANCE_EXTENSIONS == {<<".", "xml">>, <<".", "csv">>, <<".", "geojson">>}

\* ------------------------------------------------------------ collaborators
\* Names other nodes of the survey can be referred to by.
RefNames == {"q", "b", "c", "s"}

RECURSIVE InsertXpaths(_, _, _, _)
\* survey.insert_xpaths(text, context, use_current, reference_parent): every
\* ${name} of text is replaced by the path the survey resolves the name to in
\* that mode, padded with a space on both sides; the rest is kept as typed.
InsertXpaths(sv, text, use_current, reference_parent) ==
    IF text = <<>> THEN <<>>
    ELSE IF Head(text) = "${" /\ Len(text) >= 3 /\ text[3] = "}" /\ text[2] \in RefNames
         THEN <<" ">>
              \o (IF reference_parent THEN sv.parent_xpath[text[2]]
                  ELSE IF use_current THEN sv.current_xpath[text[2]]
                  ELSE sv.xpath[text[2]])
              \o <<" ">>
              \o InsertXpaths(sv, SubSeq(text, 4, Len(text)), use_current, reference_parent)
         ELSE <<Head(text)>> \o InsertXpaths(sv, Tail(text), use_current, reference_parent)

\* survey.get_trigger_values_for_question_name(name, kind)
GetTriggerValues(sv, name, kind) == sv.triggers[kind][name]

\* SurveyElement.get_xpath()
GetXpath(n) == <<"/", "d", "/", n.name>>

\* ------------------------------------------------------------ markup
NoElement == [tag |-> <<>>, attrs |-> EmptyMap, children |-> <<>>, text |-> <<>>]

\* utils.node(tag, *children, **attrs); a "tag" keyword is not an attribute
Node(tag, children, attrs) ==
    [tag |-> tag, attrs |-> [k \in (DOMAIN attrs) \ {"tag"} |-> attrs[k]],
     children |-> children, text |-> <<>>]

\* utils.node(tag, text)
TextNode(tag, text) == [tag |-> tag, attrs |-> EmptyMap, children |-> <<>>, text |-> text]

\* utils.node(**control_dict): the tag comes from the "tag" key, which is not
\* itself an attribute.
NodeFromDict(d) == Node(d["tag"], <<>>, d)

AppendChildren(el, kids) == [el EXCEPT !.children = @ \o kids]

SetAttribute(el, k, v) == [el EXCEPT !.attrs = Put(@, k, v)]

\* SurveyElement.xml_label_and_hint(): the label and hint fragments the node
\* has decided on.
XmlLabelAndHint(n) ==
    (IF n.label # <<>> THEN <<TextNode(<<"label">>, n.label)>> ELSE <<>>)
    \o (IF n.hint # <<>> THEN <<TextNode(<<"hint">>, n.hint)>> ELSE <<>>)

\* SurveyElement.xml_label()
XmlLabel(n) == TextNode(<<"label">>, n.label)

\* ------------------------------------------------------------ outcomes
\* What a call leaves behind: the element it returned (or none), or the error
\* it raised, and the node as the call left it.
Built(el, n) == [kind |-> "element", err |-> "", msg |-> <<>>, el |-> el, node |-> n]

Absent(n) == [kind |-> "none", err |-> "", msg |-> <<>>, el |-> NoElement, node |-> n]

Raise(err, msg, n) == [kind |-> "error", err |-> err, msg |-> msg, el |-> NoElement, node |-> n]

\* ------------------------------------------------------------ builders
\* "for key, value in control_dict.items(): control_dict[key] = insert_xpaths(..)"
\* followed by control_dict["ref"] = self.get_xpath()
ResolveControl(n, sv, control_dict) ==
    Put([k \in DOMAIN control_dict |-> InsertXpaths(sv, control_dict[k], FALSE, FALSE)],
        "ref", GetXpath(n))

\* Question.build_xml
QuestionBuildXml(n, sv) == Absent(n)

\* InputQuestion.build_xml: control_dict is self.control itself
InputBuildXml(n, sv) ==
    LET label_and_hint == XmlLabelAndHint(n)
        control_dict == ResolveControl(n, sv, n.control)
        result0 == AppendChildren(NodeFromDict(control_dict), label_and_hint)
        choice_filter == InsertXpaths(sv, n.choice_filter, TRUE, FALSE)
        query == <<"instance('">> \o n.query \o <<"')/root/item">>
                 \o (IF choice_filter # <<>> THEN <<"[">> \o choice_filter \o <<"]">> ELSE <<>>)
    IN  Built(IF n.query # <<>> THEN SetAttribute(result0, "query", query) ELSE result0,
              [n EXCEPT !.control = control_dict])

\* TriggerQuestion.build_xml
TriggerBuildXml(n, sv) ==
    LET control_dict == ResolveControl(n, sv, n.control)
    IN  Built(Node(<<"trigger">>, XmlLabelAndHint(n), control_dict),
              [n EXCEPT !.control = control_dict])

\* UploadQuestion._get_media_type
GetMediaType(control) == control["mediatype"]

\* UploadQuestion.build_xml
UploadBuildXml(n, sv) ==
    LET resolved == ResolveControl(n, sv, n.control)
        control_dict == Put(resolved, "mediatype", GetMediaType(resolved))
    IN  Built(Node(<<"upload">>, XmlLabelAndHint(n), control_dict),
              [n EXCEPT !.control = control_dict])

\* Option.xml
OptionXml(o) == Node(<<"item">>, <<XmlLabel(o), TextNode(<<"value">>, <<o.name>>)>>, EmptyMap)

\* Tag.xml
TagXml(t) ==
    Node(<<"tag">>,
         <<XmlLabel(t)>> \o [i \in 1..Len(t.children) |-> OptionXml(t.children[i])],
         [key |-> <<t.name>>])

\* OsmUploadQuestion.build_xml
OsmUploadBuildXml(n, sv) ==
    LET with_ref == Put(n.control, "ref", GetXpath(n))
        control_dict == Put(with_ref, "mediatype", GetMediaType(with_ref))
    IN  Built(AppendChildren(Node(<<"upload">>, XmlLabelAndHint(n), control_dict),
                             [i \in 1..Len(n.children) |-> TagXml(n.children[i])]),
              [n EXCEPT !.control = control_dict])

\* RangeQuestion.build_xml
RangeBuildXml(n, sv) ==
    LET label_and_hint == XmlLabelAndHint(n)
        control_dict == Update(ResolveControl(n, sv, n.control), n.parameters)
    IN  Built(AppendChildren(NodeFromDict(control_dict), label_and_hint),
              [n EXCEPT !.control = control_dict])

\* ------------------------------------------------------------ multiple choice
\* Mutant of ValidBindType: the rank type is forgotten.
ValidBindTypeStringOnly(n) == n.bind["type"] = <<"string">>

\* the bind-type check that opens MultipleChoiceQuestion.build_xml
ValidBindType(n) == n.bind["type"] \in {<<"string">>, <<"odk:rank">>}

\* Mutant of DefaultValueRef: the geojson extension is not looked at.
DefaultValueRefNoGeojson(n, file_extension) ==
    Get(n.parameters, "value", EXTERNAL_CHOICES_ITEMSET_REF_VALUE)

\* itemset_value_ref as first assigned
DefaultValueRef(n, file_extension) ==
    Get(n.parameters, "value",
        IF file_extension = <<".", "geojson">>
        THEN EXTERNAL_CHOICES_ITEMSET_REF_VALUE_GEOJSON
        ELSE EXTERNAL_CHOICES_ITEMSET_REF_VALUE)

\* itemset_label_ref as first assigned
DefaultLabelRef(n, file_extension) ==
    Get(n.parameters, "label",
        IF file_extension = <<".", "geojson">>
        THEN EXTERNAL_CHOICES_ITEMSET_REF_LABEL_GEOJSON
        ELSE EXTERNAL_CHOICES_ITEMSET_REF_LABEL)

\* Mutant of ItemsetAndLabelRef: only the multi-language flag forces itext.
ItemsetAndLabelRefLanguageOnly(n, root, file_extension, label_ref) ==
    IF file_extension \in EXTERNAL_INSTANCE_EXTENSIONS THEN <<root, label_ref>>
    ELSE IF ~n.multi_language THEN <<n.itemset, label_ref>>
    ELSE <<n.itemset, <<"jr:itext(itextId)">>>>

\* the three-way branch on the extension and the upstream flags: <<itemset,
\* itemset_label_ref>>
ItemsetAndLabelRef(n, root, file_extension, label_ref) ==
    IF file_extension \in EXTERNAL_INSTANCE_EXTENSIONS THEN <<root, label_ref>>
    ELSE IF ~n.multi_language /\ ~n.has_media /\ ~n.dyn_label THEN <<n.itemset, label_ref>>
    ELSE <<n.itemset, <<"jr:itext(itextId)">>>>

\* Mutant of PreviousQuestionFilter: the synthesised filter tests the bare name.
PreviousQuestionFilterBareName(choice_filter, nodeset, name) ==
    IF choice_filter # <<>>
    THEN Replace(Replace(choice_filter, <<"current()", "/">> \o nodeset, <<".">>),
                 nodeset, <<".">>)
    ELSE name \o <<" ", "!=", " ", "''">>

\* the filter of a previous-question itemset: rewritten when there is one,
\* synthesised from the final segment when there is none
PreviousQuestionFilter(choice_filter, nodeset, name) ==
    IF choice_filter # <<>>
    THEN Replace(Replace(choice_filter, <<"current()", "/">> \o nodeset, <<".">>),
                 nodeset, <<".">>)
    ELSE <<".", "/">> \o name \o <<" ", "!=", " ", "''">>

\* "if choice_filter: nodeset += '[' + choice_filter + ']'"
WithPredicate(nodeset, choice_filter) ==
    IF choice_filter # <<>> THEN nodeset \o <<"[">> \o choice_filter \o <<"]">> ELSE nodeset

\* Mutant of Randomize: a referenced seed is passed through unresolved.
RandomizeLiteralSeed(n, sv, nodeset) ==
    LET params == n.parameters
    IN  IF params # EmptyMap /\ "randomize" \in DOMAIN params /\ params["randomize"] = <<"true">>
        THEN <<"randomize(">> \o nodeset
             \o (IF "seed" \in DOMAIN params THEN <<",", " ">> \o params["seed"] ELSE <<>>)
             \o <<")">>
        ELSE nodeset

\* the randomize / seed wrapping
Randomize(n, sv, nodeset) ==
    LET params == n.parameters
    IN  IF params # EmptyMap /\ "randomize" \in DOMAIN params /\ params["randomize"] = <<"true">>
        THEN <<"randomize(">> \o nodeset
             \o (IF "seed" \in DOMAIN params
                 THEN IF StartsWith(params["seed"], <<"${">>)
                      THEN <<",", " ">> \o Strip(InsertXpaths(sv, params["seed"], FALSE, FALSE))
                      ELSE <<",", " ">> \o params["seed"]
                 ELSE <<>>)
             \o <<")">>
        ELSE nodeset

\* the itemset element of a MultipleChoice node with a string itemset
ItemsetXml(n, sv) ==
    LET split == Splitext(n.itemset)
        file_extension == split[2]
        is_previous_question == ReferenceSearch(n.itemset)
        branch == ItemsetAndLabelRef(n, split[1], file_extension,
                                     DefaultLabelRef(n, file_extension))
        choice_filter == InsertXpaths(sv, n.choice_filter, TRUE, is_previous_question)
        path == Split(Strip(InsertXpaths(sv, n.itemset, FALSE, TRUE)), "/")
        last == path[Len(path)]
        prev_nodeset == Join(SubSeq(path, 1, Len(path) - 1), "/")
        nodeset == IF is_previous_question THEN prev_nodeset
                   ELSE <<"instance('">> \o branch[1] \o <<"')/root/item">>
        filter == IF is_previous_question
                  THEN PreviousQuestionFilter(choice_filter, prev_nodeset, last)
                  ELSE choice_filter
        itemset_value_ref == IF is_previous_question THEN last
                             ELSE DefaultValueRef(n, file_extension)
        itemset_label_ref == IF is_previous_question THEN last ELSE branch[2]
    IN  Node(<<"itemset">>,
             <<Node(<<"value">>, <<>>, [ref |-> itemset_value_ref]),
               Node(<<"label">>, <<>>, [ref |-> itemset_label_ref])>>,
             [nodeset |-> Randomize(n, sv, WithPredicate(nodeset, filter))])

\* MultipleChoiceQuestion.build_xml: control_dict is a copy of self.control
MultipleChoiceBuildXml(n, sv) ==
    IF ~ValidBindType(n)
    THEN Raise("InvalidBindType", <<"Invalid value for self.bind[type].">>, n)
    ELSE LET control_dict == ResolveControl(n, sv, n.control)
             result0 == AppendChildren(NodeFromDict(control_dict), XmlLabelAndHint(n))
         IN  Built(AppendChildren(result0,
                                  IF n.itemset # <<>>
                                  THEN <<ItemsetXml(n, sv)>>
                                  ELSE [i \in 1..Len(n.children) |-> OptionXml(n.children[i])]),
                   n)

\* ------------------------------------------------------------ xml_control
\* dispatch on the node's class
BuildXml(n, sv) ==
    CASE n.variant = "Input" -> InputBuildXml(n, sv)
      [] n.variant = "Trigger" -> TriggerBuildXml(n, sv)
      [] n.variant = "Upload" -> UploadBuildXml(n, sv)
      [] n.variant = "OsmUpload" -> OsmUploadBuildXml(n, sv)
      [] n.variant = "Range" -> RangeBuildXml(n, sv)
      [] n.variant = "MultipleChoice" -> MultipleChoiceBuildXml(n, sv)
      [] OTHER -> QuestionBuildXml(n, sv)

\* Mutant of IsHidden: the label/hint test is applied to the type test too.
IsHiddenMisgrouped(n) ==
    /\ (n.type = "calculate" \/ "calculate" \in DOMAIN n.bind \/ n.trigger # <<>>)
    /\ ~(n.label # <<>> \/ n.hint # <<>>)

\* the condition that opens Question.xml_control
IsHidden(n) ==
    \/ n.type = "calculate"
    \/ /\ ("calculate" \in DOMAIN n.bind \/ n.trigger # <<>>)
       /\ ~(n.label # <<>> \/ n.hint # <<>>)

\* the message of the error xml_control raises for a hidden trigger target
HiddenTargetMessage(n, setvalue) ==
    <<"The question ", "${", n.name, "}",
      " is not user-visible so it can't be used as a calculation trigger for question ",
      "${", setvalue[1], "}", ".">>

\* the element nest_set_nodes builds for one item
SetNode(n, sv, tag, item) ==
    LET node_attrs == [ref |-> Strip(InsertXpaths(sv, <<"${", item[1], "}">>, FALSE, FALSE)),
                       event |-> <<"xforms-value-changed">>]
    IN  Node(tag, <<>>,
             IF item[2] # <<>>
             THEN Put(node_attrs, "value", InsertXpaths(sv, item[2], FALSE, FALSE))
             ELSE node_attrs)

\* Question.nest_set_nodes
NestSetNodes(n, sv, xml_node, tag, nested_items) ==
    AppendChildren(xml_node,
                   [i \in 1..Len(nested_items) |-> SetNode(n, sv, tag, nested_items[i])])

\* Mutant of NestActions: the geopoint actions are nested first.
NestActionsGeopointFirst(n, sv, xml_node) ==
    LET setvalue_items == GetTriggerValues(sv, n.name, "setvalue")
        setgeopoint_items == GetTriggerValues(sv, n.name, "setgeopoint")
        with_setgeopoint == IF setgeopoint_items # <<>>
                            THEN NestSetNodes(n, sv, xml_node, <<"odk:setgeopoint">>,
                                              setgeopoint_items)
                            ELSE xml_node
    IN  IF setvalue_items # <<>>
        THEN NestSetNodes(n, sv, with_setgeopoint, <<"setvalue">>, setvalue_items)
        ELSE with_setgeopoint

\* the part of xml_control after build_xml returned an element
NestActions(n, sv, xml_node) ==
    LET setvalue_items == GetTriggerValues(sv, n.name, "setvalue")
        setgeopoint_items == GetTriggerValues(sv, n.name, "setgeopoint")
        with_setvalue == IF setvalue_items # <<>>
                         THEN NestSetNodes(n, sv, xml_node, <<"setvalue">>, setvalue_items)
                         ELSE xml_node
    IN  IF setgeopoint_items # <<>>
        THEN NestSetNodes(n, sv, with_setvalue, <<"odk:setgeopoint">>, setgeopoint_items)
        ELSE with_setvalue

\* Mutant of XmlControl: the element is built before the hidden-node check.
XmlControlBuildFirst(n, sv) ==
    LET built == BuildXml(n, sv)
    IN  IF built.kind = "error" THEN built
        ELSE IF IsHidden(n)
        THEN LET nested_setvalues == GetTriggerValues(sv, n.name, "setvalue")
             IN  IF nested_setvalues # <<>>
                 THEN Raise("HiddenTriggerTarget",
                            HiddenTargetMessage(n, nested_setvalues[1]), built.node)
                 ELSE Absent(built.node)
        ELSE IF built.kind = "element"
             THEN Built(NestActions(built.node, sv, built.el), built.node)
             ELSE built

\* Question.xml_control
XmlControl(n, sv) ==
    IF IsHidden(n)
    THEN LET nested_setvalues == GetTriggerValues(sv, n.name, "setvalue")
         IN  IF nested_setvalues # <<>>
             THEN Raise("HiddenTriggerTarget", HiddenTargetMessage(n, nested_setvalues[1]), n)
             ELSE Absent(n)
    ELSE LET built == BuildXml(n, sv)
         IN  IF built.kind = "element"
             THEN Built(NestActions(built.node, sv, built.el), built.node)
             ELSE built

\* ------------------------------------------------------------ inputs
SeqsUpTo(S, n) == UNION {[1..k -> S] : k \in 0..n}

\* a reference to node b, as authored
RefB == <<"${", "b", "}">>

AbsolutePaths == [r \in RefNames |-> <<"/", "d", "/", r>>]

NoTriggers == [k \in {"setvalue", "setgeopoint"} |-> [nm \in {"n"} |-> <<>>]]

PlainSurvey ==
    [xpath |-> AbsolutePaths, current_xpath |-> AbsolutePaths,
     parent_xpath |-> AbsolutePaths, triggers |-> NoTriggers]

\* (source name, expression) pairs other nodes declare against node n
SetvalueItems == {<<"b", <<>>>>, <<"c", RefB \o <<"+", "1">>>>}

SetgeopointItems == {<<"c", <<>>>>}

TriggerSurveys ==
    {[PlainSurvey EXCEPT !.triggers = [setvalue |-> [nm \in {"n"} |-> sv],
                                       setgeopoint |-> [nm \in {"n"} |-> sg]]] :
        sv \in SeqsUpTo(SetvalueItems, MaxTriggers),
        sg \in SeqsUpTo(SetgeopointItems, MaxGeo)}

Choices == <<[name |-> "y", label |-> <<"Yes">>], [name |-> "z", label |-> <<"No">>]>>

Tags == <<[name |-> "t", label |-> <<"T">>, children |-> Choices]>>

BaseNode ==
    [variant |-> "Question", type |-> "text", name |-> "n",
     bind |-> [type |-> <<"string">>], trigger |-> <<>>,
     label |-> <<"L">>, hint |-> <<>>,
     control |-> [tag |-> <<"input">>], parameters |-> EmptyMap,
     itemset |-> <<>>, choice_filter |-> <<>>, query |-> <<>>,
     multi_language |-> FALSE, has_media |-> FALSE, dyn_label |-> FALSE,
     children |-> <<>>]

\* the nodes of each class, as the authoring pass leaves them
VariantNodes ==
    {BaseNode}
    \cup {[BaseNode EXCEPT !.variant = "Input", !.bind = [type |-> <<"int">>], !.query = qy] :
            qy \in {<<>>, <<"k">>}}
    \cup {[BaseNode EXCEPT !.variant = "Trigger", !.control = [tag |-> <<"trigger">>]]}
    \cup {[BaseNode EXCEPT !.variant = "Upload", !.bind = [type |-> <<"binary">>],
                           !.control = [tag |-> <<"upload">>, mediatype |-> <<"image/*">>]]}
    \cup {[BaseNode EXCEPT !.variant = "OsmUpload", !.bind = [type |-> <<"binary">>],
                           !.control = [tag |-> <<"upload">>, mediatype |-> <<"osm/*">>],
                           !.children = Tags]}
    \cup {[BaseNode EXCEPT !.variant = "Range", !.bind = [type |-> <<"int">>],
                           !.control = [tag |-> <<"range">>], !.parameters = ps] :
            ps \in {EmptyMap, [start |-> <<"1">>, end |-> <<"9">>]}}
    \cup {[BaseNode EXCEPT !.variant = "MultipleChoice", !.bind = [type |-> bt],
                           !.control = [tag |-> <<"select1">>],
                           !.itemset = its,
                           !.children = IF its = <<>> THEN Choices ELSE <<>>] :
            bt \in {<<"string">>, <<"odk:rank">>, <<"int">>}, its \in {<<>>, <<"k">>}}

\* every way a node of the survey can be typed, bound, triggered and
\* labelled; its control attributes refer to another node
SurveyNodes ==
    {[v EXCEPT !.type = ty,
               !.bind = IF calc THEN Put(@, "calculate", <<"1", "+", "1">>) ELSE @,
               !.trigger = tr, !.label = lh[1], !.hint = lh[2],
               !.control = IF v.variant = "Trigger" THEN @ ELSE Put(@, "appearance", RefB)] :
        v \in VariantNodes, ty \in {"calculate", "text"}, calc \in BOOLEAN,
        tr \in {<<>>, RefB},
        lh \in {<<<<"L">>, <<>>>>, <<<<>>, <<"H">>>>, <<<<>>, <<>>>>}}

\* a visible select-one node
SelectNode ==
    [BaseNode EXCEPT !.variant = "MultipleChoice", !.type = "select one",
                     !.control = [tag |-> <<"select1">>]]

\* the shapes an itemset string takes: internal list, external files,
\* an unrecognised extension, a reference to a previous question
Itemsets ==
    {<<"k">>, <<"k", ".", "csv">>, <<"k", ".", "xml">>, <<"k", ".", "geojson">>,
     <<"k", ".", "txt">>, <<"${", "q", "}">>, <<"${", "q", "}", ".", "geojson">>}

ChoiceFilters == {<<>>, <<"x", "=", "1">>, RefB \o <<"=", "1">>}

ParameterMaps ==
    {[k \in ks |-> CASE k = "value" -> <<"v">>
                     [] k = "label" -> <<"l">>
                     [] k = "randomize" -> rz
                     [] OTHER -> sd] :
        ks \in SUBSET {"value", "label", "randomize", "seed"},
        rz \in {<<"true">>, <<"false">>},
        sd \in {<<"42">>, <<"${", "s", "}">>}}

ItemsetNodes ==
    {[SelectNode EXCEPT !.itemset = its, !.choice_filter = cf, !.parameters = ps,
                        !.multi_language = fl[1], !.has_media = fl[2], !.dyn_label = fl[3]] :
        its \in Itemsets, cf \in ChoiceFilters, ps \in ParameterMaps,
        fl \in BOOLEAN \X BOOLEAN \X BOOLEAN}

\* what the survey resolves ${q} to when asked for the parent context
ParentPaths == {<<"/", "d", "/", "g", "/", "q">>, <<".", ".", "/", "q">>, <<"q">>}

ItemsetSurveys ==
    {[PlainSurvey EXCEPT !.parent_xpath = [AbsolutePaths EXCEPT !["q"] = pp],
                         !.current_xpath = [r \in RefNames |-> <<"current()">> \o AbsolutePaths[r]]] :
        pp \in ParentPaths}

\* filter expressions as the resolver returns them
FilterAlphabet == {"current()", "/", ".", "a"}

\* the node-set paths a reference to a previous question resolves under
FilterNodesets ==
    {<<>>, <<"a">>, <<"/", "a">>, <<"a", "/", "a">>, <<".">>, <<".", ".">>}

FilterNodes ==
    {[SelectNode EXCEPT !.itemset = <<"${", "q", "}">>, !.choice_filter = cf] :
        cf \in SeqsUpTo(FilterAlphabet, MaxFilterLen)}

FilterSurveys ==
    {[PlainSurvey EXCEPT !.parent_xpath =
          [AbsolutePaths EXCEPT !["q"] = IF ns = <<>> THEN <<"q">> ELSE ns \o <<"/", "q">>]] :
        ns \in FilterNodesets}

Idle == [kind |-> "idle", err |-> "", msg |-> <<>>, el |-> NoElement]

Outcome(r) == [kind |-> r.kind, err |-> r.err, msg |-> r.msg, el |-> r.el]

\* ------------------------------------------------------------ state machine
Init ==
    /\ node \in SurveyNodes
    /\ survey \in TriggerSurveys
    /\ result = Idle
    /\ before = node
    /\ op = "none"

\* the compiler asks the node for its control markup
CallXmlControl ==
    LET r == XmlControl(node, survey)
    IN  /\ before' = node
        /\ node' = r.node
        /\ result' = Outcome(r)
        /\ op' = "xml_control"
        /\ UNCHANGED survey

\* the node's own builder is invoked directly
CallBuildXml ==
    LET r == BuildXml(node, survey)
    IN  /\ before' = node
        /\ node' = r.node
        /\ result' = Outcome(r)
        /\ op' = "build_xml"
        /\ UNCHANGED survey

Next == CallXmlControl \/ CallBuildXml

Spec == Init /\ [][Next]_vars

\* select nodes over every itemset shape, filter, parameter map and flag
InitItemset ==
    /\ node \in ItemsetNodes
    /\ survey \in ItemsetSurveys
    /\ result = Idle
    /\ before = node
    /\ op = "none"

SpecItemset == InitItemset /\ [][Next]_vars

\* previous-question select nodes over every short filter expression
InitFilter ==
    /\ node \in FilterNodes
    /\ survey \in FilterSurveys
    /\ result = Idle
    /\ before = node
    /\ op = "none"

SpecFilter == InitFilter /\ [][Next]_vars

\* ------------------------------------------------------------ properties
\* the node is hidden: a pure calculation, or bound to a calculation or
\* triggered while having neither label nor hint
Hidden(n) ==
    \/ n.type = "calculate"
    \/ /\ ("calculate" \in DOMAIN n.bind \/ n.trigger # <<>>)
       /\ n.label = <<>>
       /\ n.hint = <<>>

SetvalueLookup == survey.triggers["setvalue"][before.name]

SetgeopointLookup == survey.triggers["setgeopoint"][before.name]

\* C1: xml_control on a hidden node fails with an error naming the hidden
\* node and the source node of the trigger when the setvalue lookup for the
\* node's name is non-empty, and returns an absent control without error
\* when that lookup is empty.
C1_HiddenTriggerTarget ==
    (op = "xml_control" /\ Hidden(before)) =>
        IF SetvalueLookup # <<>>
        THEN /\ result.kind = "error"
             /\ result.err = "HiddenTriggerTarget"
             /\ Contains(result.msg, <<"${", before.name, "}">>)
             /\ Contains(result.msg, <<"${", SetvalueLookup[1][1], "}">>)
        ELSE result.kind = "none" /\ result.err = ""

C1_Witness ==
    /\ op = "xml_control"
    /\ before.type = "calculate"
    /\ before.label # <<>>
    /\ Len(SetvalueLookup) = 2
    /\ SetvalueLookup[1][1] = "c"
    /\ result.kind = "error"

\* C2: MultipleChoiceQuestion.build_xml raises the invalid-bind-type error and
\* produces no element whenever the bind type is neither string nor odk:rank,
\* and never raises that error when it is one of the two.
C2_BindTypeRestricted ==
    (op = "build_xml" /\ before.variant = "MultipleChoice") =>
        IF before.bind["type"] # <<"string">> /\ before.bind["type"] # <<"odk:rank">>
        THEN result.kind = "error" /\ result.err = "InvalidBindType" /\ result.el = NoElement
        ELSE result.err # "InvalidBindType"

C2_Witness ==
    /\ op = "build_xml"
    /\ before.variant = "MultipleChoice"
    /\ before.bind["type"] = <<"int">>
    /\ before.itemset # <<>>
    /\ result.err = "InvalidBindType"

\* C6: building the control markup never mutates the node: after the call the
\* node equals what it was before the call.
C6_NodeNeverMutated == op # "none" => node = before

\* C9: the action children xml_control appends to a built element are one
\* setvalue element per setvalue entry, in order, then one odk:setgeopoint
\* element per setgeopoint entry, in order; each has ref = the source node's
\* path and event = xforms-value-changed, and a value attribute exactly when
\* the entry has an expression; with both lookups empty nothing is appended.
C9_ActionChildren ==
    (op = "xml_control" /\ result.kind = "element") =>
        LET base == BuildXml(before, survey).el
            items == SetvalueLookup \o SetgeopointLookup
            kids == result.el.children
            nb == Len(base.children)
        IN  /\ result.el.tag = base.tag
            /\ result.el.attrs = base.attrs
            /\ Len(kids) = nb + Len(items)
            /\ SubSeq(kids, 1, nb) = base.children
            /\ \A i \in 1..Len(items) :
                  LET a == kids[nb + i]
                  IN  /\ a.tag = IF i <= Len(SetvalueLookup) THEN <<"setvalue">>
                                 ELSE <<"odk:setgeopoint">>
                      /\ a.attrs["ref"] = survey.xpath[items[i][1]]
                      /\ a.attrs["event"] = <<"xforms-value-changed">>
                      /\ ("value" \in DOMAIN a.attrs) <=> (items[i][2] # <<>>)
                      /\ DOMAIN a.attrs \subseteq {"ref", "event", "value"}
                      /\ a.children = <<>>
            /\ items = <<>> => result.el = base

C9_Witness ==
    /\ op = "xml_control"
    /\ result.kind = "element"
    /\ before.variant = "MultipleChoice"
    /\ Len(SetvalueLookup) = 2
    /\ SetvalueLookup[1][2] = <<>>
    /\ SetvalueLookup[2][2] # <<>>
    /\ Len(SetgeopointLookup) = 1

\* C10: for a hidden node xml_control never invokes build_xml and consults
\* only the setvalue lookup: the node is left as it was, the only error is
\* the hidden-trigger-target error, and with an empty setvalue lookup the
\* control is absent whatever the bind type and the setgeopoint lookup are.
C10_HiddenBeforeDispatch ==
    (op = "xml_control" /\ Hidden(before)) =>
        /\ node = before
        /\ result.el = NoElement
        /\ result.kind = "error" => result.err = "HiddenTriggerTarget"
        /\ SetvalueLookup = <<>> => result.kind = "none"

C10_Witness ==
    /\ op = "xml_control"
    /\ Hidden(before)
    /\ before.variant = "MultipleChoice"
    /\ before.bind["type"] = <<"int">>
    /\ SetvalueLookup = <<>>
    /\ SetgeopointLookup # <<>>
    /\ result.kind = "none"

\* ------------------------------------------------------------ itemset properties
\* a call has built the element of a node with a string itemset
ItemsetBuilt == op # "none" /\ result.kind = "element" /\ before.itemset # <<>>

\* the itemset element is the last child of the built element
EmittedItemset == result.el.children[Len(result.el.children)]

EmittedNodeset == EmittedItemset.attrs["nodeset"]

EmittedValueRef == EmittedItemset.children[1].attrs["ref"]

EmittedLabelRef == EmittedItemset.children[2].attrs["ref"]

\* the itemset string is a reference to a previous question
RefersToQuestion(its) == Len(its) >= 3 /\ its[1] = "${" /\ its[3] = "}"

\* the path the reference resolves to, its final segment and what precedes it
ResolvedReference == Strip(InsertXpaths(survey, before.itemset, FALSE, TRUE))

FinalSegment(path) == SubSeq(path, LastIndex(path, "/") + 1, Len(path))

ParentPath(path) == SubSeq(path, 1, LastIndex(path, "/") - 1)

AnyFlag(n) == n.multi_language \/ n.has_media \/ n.dyn_label

RandomizeRequested(n) ==
    "randomize" \in DOMAIN n.parameters /\ n.parameters["randomize"] = <<"true">>

\* C3: for a previous-question itemset whose resolved choice_filter is empty,
\* with the reference resolving to P/s, the nodeset is P[./s != ''] before
\* any randomize wrapping, value ref and label ref are both s, and the
\* nodeset is never of the instance('...')/root/item form, whatever the
\* extension, the value/label parameters and the flags are.
C3_PreviousQuestionNoFilter ==
    (/\ ItemsetBuilt
     /\ RefersToQuestion(before.itemset)
     /\ InsertXpaths(survey, before.choice_filter, TRUE, TRUE) = <<>>) =>
        LET s == FinalSegment(ResolvedReference)
            expected == ParentPath(ResolvedReference)
                        \o <<"[", ".", "/">> \o s \o <<" ", "!=", " ", "''", "]">>
        IN  /\ IF RandomizeRequested(before)
               THEN StartsWith(EmittedNodeset, <<"randomize(">> \o expected)
               ELSE EmittedNodeset = expected
            /\ EmittedValueRef = s
            /\ EmittedLabelRef = s
            /\ ~Contains(EmittedNodeset, <<"instance('">>)

C3_Witness ==
    /\ ItemsetBuilt
    /\ before.itemset = <<"${", "q", "}", ".", "geojson">>
    /\ before.choice_filter = <<>>
    /\ before.has_media
    /\ DOMAIN before.parameters = {"value", "label"}
    /\ survey.parent_xpath["q"] = <<"/", "d", "/", "g", "/", "q">>
    /\ EmittedNodeset = <<"/", "d", "/", "g", "[", ".", "/", "q", " ", ".", "geojson",
                          " ", "!=", " ", "''", "]">>

\* the node-set the same node emits without the randomize parameter
UnrandomizedNodeset ==
    LET ps == before.parameters
        plain == [before EXCEPT !.parameters = [k \in (DOMAIN ps) \ {"randomize"} |-> ps[k]]]
        el == BuildXml(plain, survey).el
    IN  el.children[Len(el.children)].attrs["nodeset"]

\* C4: with B the node-set emitted without randomize (predicate included,
\* seed ignored), randomize = "true" emits randomize(B) without a seed and
\* randomize(B, seed) with one, the seed literal or, when it starts with
\* "${", resolved; any other randomize value emits B itself.
C4_RandomizeWrapsBase ==
    ItemsetBuilt =>
        LET ps == before.parameters
            seed == IF ps["seed"][1] = "${" THEN survey.xpath[ps["seed"][2]] ELSE ps["seed"]
        IN  IF RandomizeRequested(before)
            THEN EmittedNodeset =
                     <<"randomize(">> \o UnrandomizedNodeset
                     \o (IF "seed" \in DOMAIN ps THEN <<",", " ">> \o seed ELSE <<>>)
                     \o <<")">>
            ELSE EmittedNodeset = UnrandomizedNodeset

C4_Witness ==
    /\ ItemsetBuilt
    /\ RandomizeRequested(before)
    /\ "seed" \in DOMAIN before.parameters
    /\ before.parameters["seed"] = <<"${", "s", "}">>
    /\ before.choice_filter = <<"x", "=", "1">>
    /\ before.itemset = <<"k">>
    /\ EmittedNodeset = <<"randomize(", "instance('", "k", "')/root/item", "[", "x", "=", "1", "]",
                          ",", " ", "/", "d", "/", "s", ")">>

\* C5 as stated: whenever one of the three flags is set, the label ref of
\* the itemset is the itext lookup, for every itemset shape.
C5_ItextForEveryShape ==
    (ItemsetBuilt /\ AnyFlag(before)) => EmittedLabelRef = <<"jr:itext(itextId)">>

\* C5 amended: whenever one of the three flags is set and the itemset is
\* neither a previous-question reference nor a file with an external-instance
\* extension, the label ref is the itext lookup, overriding the default and
\* an explicit parameters.label; with an external-instance extension the
\* default or explicit label ref is kept.
C5_ItextForInternalLists ==
    (ItemsetBuilt /\ AnyFlag(before) /\ ~RefersToQuestion(before.itemset)) =>
        LET ext == Splitext(before.itemset)[2]
        IN  IF ext \in EXTERNAL_INSTANCE_EXTENSIONS
            THEN EmittedLabelRef =
                     Get(before.parameters, "label",
                         IF ext = <<".", "geojson">>
                         THEN EXTERNAL_CHOICES_ITEMSET_REF_LABEL_GEOJSON
                         ELSE EXTERNAL_CHOICES_ITEMSET_REF_LABEL)
            ELSE EmittedLabelRef = <<"jr:itext(itextId)">>

C5_Witness ==
    /\ ItemsetBuilt
    /\ before.itemset = <<"k", ".", "txt">>
    /\ before.has_media /\ ~before.multi_language /\ ~before.dyn_label
    /\ "label" \in DOMAIN before.parameters
    /\ EmittedLabelRef = <<"jr:itext(itextId)">>

\* C8 as stated: for every itemset with the geojson extension the value and
\* label refs are the geojson constants unless parameters.value or
\* parameters.label replaces them.
C8_GeojsonRefsAlways ==
    (ItemsetBuilt /\ Splitext(before.itemset)[2] = <<".", "geojson">>) =>
        /\ EmittedValueRef = Get(before.parameters, "value",
                                 EXTERNAL_CHOICES_ITEMSET_REF_VALUE_GEOJSON)
        /\ EmittedLabelRef = Get(before.parameters, "label",
                                 EXTERNAL_CHOICES_ITEMSET_REF_LABEL_GEOJSON)

\* C8 amended: the same, for itemsets with the geojson extension that are not
\* a previous-question reference.
C8_GeojsonRefsUnlessReference ==
    (/\ ItemsetBuilt
     /\ Splitext(before.itemset)[2] = <<".", "geojson">>
     /\ ~RefersToQuestion(before.itemset)) =>
        /\ EmittedValueRef = Get(before.parameters, "value",
                                 EXTERNAL_CHOICES_ITEMSET_REF_VALUE_GEOJSON)
        /\ EmittedLabelRef = Get(before.parameters, "label",
                                 EXTERNAL_CHOICES_ITEMSET_REF_LABEL_GEOJSON)

C8_Witness ==
    /\ ItemsetBuilt
    /\ before.itemset = <<"k", ".", "geojson">>
    /\ before.parameters = EmptyMap
    /\ before.multi_language
    /\ EmittedValueRef = EXTERNAL_CHOICES_ITEMSET_REF_VALUE_GEOJSON
    /\ EmittedLabelRef = EXTERNAL_CHOICES_ITEMSET_REF_LABEL_GEOJSON

\* ------------------------------------------------------------ filter rewriting
\* the node-set path of the previous question: the resolved reference
\* without its final segment
PreviousNodeset == ParentPath(ResolvedReference)

\* the predicate of the emitted node-set: what stands between the brackets
EmittedPredicate ==
    SubSeq(EmittedNodeset, Len(PreviousNodeset) + 2, Len(EmittedNodeset) - 1)

\* C7 as stated: for a previous-question itemset and every filter, the
\* predicate of the emitted nodeset never contains current()/N.
C7_NoCurrentNodesetLeft ==
    (ItemsetBuilt /\ RefersToQuestion(before.itemset)) =>
        ~Contains(EmittedPredicate, <<"current()", "/">> \o PreviousNodeset)

\* C7 amended: the same, whenever N contains no "." (N empty included).
C7_NoCurrentNodesetLeftDotFree ==
    (/\ ItemsetBuilt
     /\ RefersToQuestion(before.itemset)
     /\ \A i \in 1..Len(PreviousNodeset) : PreviousNodeset[i] # ".") =>
        ~Contains(EmittedPredicate, <<"current()", "/">> \o PreviousNodeset)

C7_Witness ==
    /\ ItemsetBuilt
    /\ PreviousNodeset = <<"a">>
    /\ before.choice_filter = <<"current()", "/", "a", "a", "a">>
    /\ EmittedPredicate = <<".", ".", ".">>

====
